---- MODULE Spec2Model ----
(***************************************************************************)
(* A model of the gokit example service of src/main.go: two capabilities   *)
(* (stringService, osInfoService), three endpoints wrapping one capability *)
(* method each, and three routes (/uppercase, /count, /hostname), each a   *)
(* go-kit httptransport.Server built from an endpoint, a decode function   *)
(* and encodeResponse.                                                     *)
(*                                                                         *)
(* Go strings are modelled as sequences of runes; each rune has the width  *)
(* of its UTF-8 encoding, so that len(s), which counts bytes, differs from *)
(* the number of characters.  Go structs are records with the fields of    *)
(* the struct and a "type" field holding the dynamic type that an          *)
(* interface{} value carries.                                              *)
(***************************************************************************)
EXTENDS Integers, Sequences, FiniteSets, TLC

\* Bounds of the model.
MaxLen == 2        \* longest string in a request body or an endpoint argument
NumCalls == 2      \* handler invocations that may be in flight at once

VARIABLES
    calls,         \* calls[c]: the handler invocation running in slot c
    osHostname,    \* what os.Hostname() returns at this moment
    probe          \* an endpoint invoked directly, outside the route wiring

vars == <<calls, osHostname, probe>>

(***************************************************************************)
(* Strings                                                                 *)
(***************************************************************************)
\* The runes request strings are made of: an ASCII lower-case letter, its
\* upper-case form, and a two-byte lower-case letter.
Runes == {"a", "A", "e'"}

\* Bytes of the rune's UTF-8 encoding ("e'" stands for U+00E9, "E'" for U+00C9).
utf8Len(r) == IF r \in {"e'", "E'"} THEN 2 ELSE 1

\* unicode.ToUpper on one rune.
toUpperRune(r) ==
    CASE r = "a" -> "A"
      [] r = "e'" -> "E'"
      [] OTHER -> r

RECURSIVE StringsUpTo(_)
StringsUpTo(n) ==
    IF n = 0 THEN {<<>>}
    ELSE LET shorter == StringsUpTo(n - 1)
         IN shorter \cup {Append(s, r) : s \in {t \in shorter : Len(t) = n - 1}, r \in Runes}

Strings == StringsUpTo(MaxLen)

\* strings.ToUpper: the string of the upper-case forms of the runes of s.
RECURSIVE ToUpper(_)
ToUpper(s) ==
    IF s = <<>> THEN <<>>
    ELSE <<toUpperRune(Head(s))>> \o ToUpper(Tail(s))

\* The builtin len on a string: the number of bytes of s.
RECURSIVE len(_)
len(s) ==
    IF s = <<>> THEN 0
    ELSE utf8Len(Head(s)) + len(Tail(s))

(***************************************************************************)
(* Errors                                                                  *)
(***************************************************************************)
\* The nil error.
NilError == [nil |-> TRUE]

\* errors.New("empty string").
ErrEmpty == [s |-> <<"e", "m", "p", "t", "y", " ", "s", "t", "r", "i", "n", "g">>]

\* The Error method of the value errors.New returns.
Error(err) == err.s

\* The errors of encoding/json's Decoder and of os.Hostname.
ErrEOF == [s |-> <<"E", "O", "F">>]
ErrSyntax == [s |-> <<"s", "y", "n", "t", "a", "x">>]
ErrUnmarshalType == [s |-> <<"t", "y", "p", "e">>]
ErrOS == [s |-> <<"o", "s">>]

(***************************************************************************)
(* Capabilities                                                            *)
(***************************************************************************)
\* Uppercase with only the first character uppercased.
Uppercase_firstOnly(s) ==
    IF s = <<>> THEN [v |-> <<>>, err |-> ErrEmpty]
    ELSE [v |-> <<toUpperRune(Head(s))>> \o Tail(s), err |-> NilError]

\* Uppercase without the test for the empty string.
Uppercase_noEmptyTest(s) == [v |-> ToUpper(s), err |-> NilError]

\* stringService.Uppercase: (value, error).
Uppercase(s) ==
    IF s = <<>> THEN [v |-> <<>>, err |-> ErrEmpty]
    ELSE [v |-> ToUpper(s), err |-> NilError]

\* Count counting runes (utf8.RuneCountInString) instead of bytes.
Count_runes(s) == Len(s)

\* stringService.Count.
Count(s) == len(s)

\* The names the machine may carry, and the results of os.Hostname().
HostNames == {<<"h", "1">>, <<"h", "2">>}
OSResults ==
    {[name |-> h, err |-> NilError] : h \in HostNames}
        \cup {[name |-> <<>>, err |-> ErrOS]}

\* Hostname dropping the error of os.Hostname().
Hostname_errIgnored(os) == [v |-> os.name, err |-> NilError]

\* osInfoService.Hostname, os being what os.Hostname() returned: (value, error).
Hostname(os) ==
    IF os.err # NilError THEN [v |-> <<>>, err |-> ErrEmpty]
    ELSE [v |-> os.name, err |-> NilError]

(***************************************************************************)
(* Request and response envelopes                                          *)
(***************************************************************************)
\* The nil interface{} value.
Nil == [type |-> "nil"]

uppercaseRequest(S) == [type |-> "uppercaseRequest", S |-> S]
uppercaseResponse(V, Err) == [type |-> "uppercaseResponse", V |-> V, Err |-> Err]
countRequest(S) == [type |-> "countRequest", S |-> S]
countResponse(V) == [type |-> "countResponse", V |-> V]
hostnameRequest == [type |-> "hostnameRequest"]
hostnameResponse(V, Err) == [type |-> "hostnameResponse", V |-> V, Err |-> Err]

\* Every value a decode function can produce, or a caller can hand an endpoint.
Requests ==
    {uppercaseRequest(s) : s \in Strings}
        \cup {countRequest(s) : s \in Strings}
        \cup {hostnameRequest}

(***************************************************************************)
(* Endpoints                                                               *)
(***************************************************************************)
\* An endpoint invocation either returns (response, error) or panics, which
\* is what a failed single-value type assertion request.(T) does.
Returned(response, err) == [kind |-> "return", response |-> response, err |-> err]
Panicked == [kind |-> "panic"]

\* The uppercase endpoint returning the domain error as its own error.
makeUppercaseEndpoint_errReturned(request) ==
    IF request.type # "uppercaseRequest" THEN Panicked
    ELSE LET r == Uppercase(request.S)
         IN IF r.err # NilError THEN Returned(Nil, r.err)
            ELSE Returned(uppercaseResponse(r.v, <<>>), NilError)

\* The function makeUppercaseEndpoint(svc) returns, applied to request.
makeUppercaseEndpoint(request) ==
    IF request.type # "uppercaseRequest" THEN Panicked
    ELSE LET r == Uppercase(request.S)
         IN IF r.err # NilError
            THEN Returned(uppercaseResponse(r.v, Error(r.err)), NilError)
            ELSE Returned(uppercaseResponse(r.v, <<>>), NilError)

\* The count endpoint keeping a total across calls: what it answers grows
\* with the count responses other calls hold.
makeCountEndpoint_runningTotal(request) ==
    IF request.type # "countRequest" THEN Panicked
    ELSE Returned(countResponse(Count(request.S)
                      + Cardinality({d \in DOMAIN calls :
                                        calls[d].response.type = "countResponse"})),
                  NilError)

\* The function makeCountEndpoint(svc) returns, applied to request.
makeCountEndpoint(request) ==
    IF request.type # "countRequest" THEN Panicked
    ELSE Returned(countResponse(Count(request.S)), NilError)

\* The hostname endpoint returning the domain error as its own error.
makeHostnameEndpoint_errReturned(os, request) ==
    LET r == Hostname(os)
    IN IF r.err # NilError THEN Returned(Nil, r.err)
       ELSE Returned(hostnameResponse(r.v, <<>>), NilError)

\* The function makeHostnameEndpoint(svc) returns, applied to request while
\* os.Hostname() returns os.  The type assertion on request is commented out
\* in the source: request is not looked at.
makeHostnameEndpoint(os, request) ==
    LET r == Hostname(os)
    IN IF r.err # NilError
       THEN Returned(hostnameResponse(r.v, Error(r.err)), NilError)
       ELSE Returned(hostnameResponse(r.v, <<>>), NilError)

(***************************************************************************)
(* JSON                                                                    *)
(***************************************************************************)
\* JSON values, and the absence of a key.
JString(s) == [t |-> "string", val |-> s]
JNumber(n) == [t |-> "number", n |-> n]
JNull == [t |-> "null"]
JAbsent == [t |-> "absent"]

\* What a request body may hold: nothing at all, text that is not JSON, the
\* JSON values null and 7, or a JSON object whose key "s" is absent or holds
\* null, a number or a string.
SFields == {JAbsent, JNull, JNumber(7)} \cup {JString(s) : s \in Strings}
RawBodies ==
    {[kind |-> k, s |-> JAbsent] : k \in {"eof", "syntax", "null", "number"}}
        \cup {[kind |-> "object", s |-> f] : f \in SFields}

\* json.NewDecoder(r.Body).Decode(&request), request holding the zero value
\* zero of its struct type: (the value of request afterwards, error).
jsonDecode(zero, body) ==
    CASE body.kind = "eof" -> [value |-> zero, err |-> ErrEOF]
      [] body.kind = "syntax" -> [value |-> zero, err |-> ErrSyntax]
      [] body.kind = "null" -> [value |-> zero, err |-> NilError]
      [] body.kind = "number" -> [value |-> zero, err |-> ErrUnmarshalType]
      [] body.kind = "object" ->
            IF "S" \notin DOMAIN zero THEN [value |-> zero, err |-> NilError]
            ELSE CASE body.s.t = "string" ->
                        [value |-> [zero EXCEPT !.S = body.s.val], err |-> NilError]
                   [] body.s.t = "number" -> [value |-> zero, err |-> ErrUnmarshalType]
                   [] OTHER -> [value |-> zero, err |-> NilError]

\* json.NewEncoder(w).Encode(response): the JSON object written, by the json
\* tags of the response struct; a field tagged omitempty is left out when it
\* holds the empty string.
jsonEncode(response) ==
    CASE response.type = "countResponse" -> [v |-> JNumber(response.V)]
      [] response.type \in {"uppercaseResponse", "hostnameResponse"} ->
            IF response.Err = <<>> THEN [v |-> JString(response.V)]
            ELSE [v |-> JString(response.V), err |-> JString(response.Err)]

(***************************************************************************)
(* Transport binding                                                       *)
(***************************************************************************)
\* decodeUppercaseRequest decoding into a variable all calls share: a call
\* gets the request another call in flight has decoded.
decodeUppercaseRequest_sharedRequest(body) ==
    LET d == jsonDecode(uppercaseRequest(<<>>), body)
        others == {o \in DOMAIN calls : calls[o].request.type = "uppercaseRequest"}
    IN IF d.err # NilError THEN [request |-> Nil, err |-> d.err]
       ELSE IF others # {} THEN [request |-> calls[CHOOSE o \in others : TRUE].request,
                                 err |-> NilError]
       ELSE [request |-> d.value, err |-> NilError]

decodeUppercaseRequest(body) ==
    LET d == jsonDecode(uppercaseRequest(<<>>), body)
    IN IF d.err # NilError THEN [request |-> Nil, err |-> d.err]
       ELSE [request |-> d.value, err |-> NilError]

\* decodeCountRequest dropping the decoder's error.
decodeCountRequest_errDropped(body) ==
    [request |-> jsonDecode(countRequest(<<>>), body).value, err |-> NilError]

decodeCountRequest(body) ==
    LET d == jsonDecode(countRequest(<<>>), body)
    IN IF d.err # NilError THEN [request |-> Nil, err |-> d.err]
       ELSE [request |-> d.value, err |-> NilError]

decodeHostnameRequest(body) ==
    LET d == jsonDecode(hostnameRequest, body)
    IN IF d.err # NilError THEN [request |-> Nil, err |-> d.err]
       ELSE [request |-> d.value, err |-> NilError]

\* encodeResponse: the body written to the http.ResponseWriter.
encodeResponse(response) == jsonEncode(response)

\* The routes main registers with http.Handle.
Routes == {"/uppercase", "/count", "/hostname"}

\* The decode function httptransport.NewServer is given for the route.
dec(route, body) ==
    CASE route = "/uppercase" -> decodeUppercaseRequest(body)
      [] route = "/count" -> decodeCountRequest(body)
      [] route = "/hostname" -> decodeHostnameRequest(body)

\* The endpoint httptransport.NewServer is given for the route, invoked while
\* os.Hostname() returns os.
e(route, os, request) ==
    CASE route = "/uppercase" -> makeUppercaseEndpoint(request)
      [] route = "/count" -> makeCountEndpoint(request)
      [] route = "/hostname" -> makeHostnameEndpoint(os, request)

\* The encode function httptransport.NewServer is given for the route.
enc(route, response) == encodeResponse(response)

(***************************************************************************)
(* Handler invocations                                                     *)
(*                                                                         *)
(* net/http runs each incoming call in a goroutine of its own, and the     *)
(* go-kit Server of the route runs dec, then the endpoint, then enc; an    *)
(* error of dec or of the endpoint goes to the Server's error encoder and  *)
(* ends the call.  A call is one slot of calls; in flight, its pc says     *)
(* which step comes next.                                                  *)
(***************************************************************************)
CallIds == 1 .. NumCalls

NoBody == [kind |-> "none", s |-> JAbsent]
NoOutput == [kind |-> "none"]
NoLookup == [none |-> TRUE]

\* What the caller gets: the encoded response envelope, or the failure the
\* Server's error encoder (or, after a panic, net/http) signals instead.
Body(json) == [kind |-> "body", json |-> json]
TransportFailure(err) == [kind |-> "failure", err |-> err]
Aborted == [kind |-> "aborted"]

\* A slot with no call in it.  route and body are the call's input, kept to
\* the end of the call; invoked records that a capability method was called,
\* seen what os.Hostname() returned to this call.
IdleCall ==
    [pc |-> "idle", route |-> "", body |-> NoBody, request |-> Nil,
     response |-> Nil, out |-> NoOutput, seen |-> NoLookup, invoked |-> FALSE]

\* A call arrives on route with body.
Receive(c, route, body) ==
    /\ calls[c].pc = "idle"
    /\ calls' = [calls EXCEPT ![c] =
                    [IdleCall EXCEPT !.pc = "decoding", !.route = route, !.body = body]]
    /\ UNCHANGED <<osHostname, probe>>

\* request, err := s.dec(ctx, r).
Decode(c) ==
    /\ calls[c].pc = "decoding"
    /\ LET d == dec(calls[c].route, calls[c].body)
       IN calls' = [calls EXCEPT ![c] =
                       IF d.err # NilError
                       THEN [@ EXCEPT !.pc = "failed", !.out = TransportFailure(d.err)]
                       ELSE [@ EXCEPT !.pc = "executing", !.request = d.request]]
    /\ UNCHANGED <<osHostname, probe>>

\* response, err := s.e(ctx, request).
Execute(c) ==
    /\ calls[c].pc = "executing"
    /\ LET r == e(calls[c].route, osHostname, calls[c].request)
       IN calls' = [calls EXCEPT ![c] =
                       IF r.kind = "panic"
                       THEN [@ EXCEPT !.pc = "failed", !.out = Aborted]
                       ELSE IF r.err # NilError
                       THEN [@ EXCEPT !.pc = "failed", !.invoked = TRUE,
                                      !.out = TransportFailure(r.err)]
                       ELSE [@ EXCEPT !.pc = "encoding", !.invoked = TRUE,
                                      !.response = r.response,
                                      !.seen = IF calls[c].route = "/hostname"
                                               THEN osHostname ELSE NoLookup]]
    /\ UNCHANGED <<osHostname, probe>>

\* s.enc(ctx, w, response).
Encode(c) ==
    /\ calls[c].pc = "encoding"
    /\ calls' = [calls EXCEPT ![c] =
                    [@ EXCEPT !.pc = "done",
                              !.out = Body(enc(calls[c].route, calls[c].response))]]
    /\ UNCHANGED <<osHostname, probe>>

\* ServeHTTP returns: the call's envelopes are dropped.
Respond(c) ==
    /\ calls[c].pc \in {"done", "failed"}
    /\ calls' = [calls EXCEPT ![c] = IdleCall]
    /\ UNCHANGED <<osHostname, probe>>

\* The machine is renamed, or its name becomes (un)available.
EnvChange(os) ==
    /\ os # osHostname
    /\ osHostname' = os
    /\ UNCHANGED <<calls, probe>>

(***************************************************************************)
(* An endpoint invoked directly with any request value                     *)
(***************************************************************************)
NoProbe == [pc |-> "ready"]

Invoke(route, request) ==
    /\ probe' = [pc |-> "returned", route |-> route, request |-> request,
                 seen |-> osHostname, result |-> e(route, osHostname, request)]
    /\ UNCHANGED <<calls, osHostname>>

(***************************************************************************)
(* Specifications                                                          *)
(***************************************************************************)
Init ==
    /\ calls = [c \in CallIds |-> IdleCall]
    /\ osHostname \in OSResults
    /\ probe = NoProbe

\* The bodies of the calls that run concurrently.
SampleBodies ==
    {[kind |-> "eof", s |-> JAbsent],
     [kind |-> "object", s |-> JString(<<>>)],
     [kind |-> "object", s |-> JString(<<"a">>)],
     [kind |-> "object", s |-> JString(<<"a", "e'">>)]}

\* The server: calls on any route, in flight together.
Next ==
    \/ \E c \in CallIds, route \in Routes, body \in SampleBodies : Receive(c, route, body)
    \/ \E c \in CallIds : Decode(c)
    \/ \E c \in CallIds : Execute(c)
    \/ \E c \in CallIds : Encode(c)
    \/ \E c \in CallIds : Respond(c)
    \/ \E os \in OSResults : EnvChange(os)

Spec == Init /\ [][Next]_vars

\* The bodies of the calls whose progress is followed: one that every decode
\* function rejects and one that every decode function accepts (the domain
\* failure is then that of Hostname, when the lookup fails).
ProgressBodies ==
    {[kind |-> "eof", s |-> JAbsent],
     [kind |-> "object", s |-> JString(<<"a">>)]}

ProgressNext ==
    \/ \E c \in CallIds, route \in Routes, body \in ProgressBodies : Receive(c, route, body)
    \/ \E c \in CallIds : Decode(c)
    \/ \E c \in CallIds : Execute(c)
    \/ \E c \in CallIds : Encode(c)
    \/ \E c \in CallIds : Respond(c)
    \/ \E os \in OSResults : EnvChange(os)

\* Every goroutine that can take a step is scheduled in the end, and no step
\* of a handler blocks.
Fairness == \A c \in CallIds : WF_vars(Decode(c) \/ Execute(c) \/ Encode(c) \/ Respond(c))

\* The server with its goroutines scheduled fairly.
FairSpec == Init /\ [][ProgressNext]_vars /\ Fairness

\* One call at a time, with every body.
RouteNext ==
    \/ \E route \in Routes, body \in RawBodies : Receive(1, route, body)
    \/ Decode(1)
    \/ Execute(1)
    \/ Encode(1)
    \/ Respond(1)
    \/ \E os \in OSResults : EnvChange(os)

RouteSpec == Init /\ [][RouteNext]_vars

\* Each endpoint applied to every request value.
EndpointNext ==
    \/ \E route \in Routes, request \in Requests : Invoke(route, request)
    \/ \E os \in OSResults : EnvChange(os)

EndpointSpec == Init /\ [][EndpointNext]_vars

(***************************************************************************)
(* Vocabulary of the properties                                            *)
(***************************************************************************)
\* The text "empty string".
EmptyStringText == <<"e", "m", "p", "t", "y", " ", "s", "t", "r", "i", "n", "g">>

\* The envelope types of a route's operation.
OwnRequestType(route) ==
    CASE route = "/uppercase" -> "uppercaseRequest"
      [] route = "/count" -> "countRequest"
      [] route = "/hostname" -> "hostnameRequest"

\* The zero value of the request envelope of a route.
ZeroRequest(route) ==
    CASE route = "/uppercase" -> [type |-> "uppercaseRequest", S |-> <<>>]
      [] route = "/count" -> [type |-> "countRequest", S |-> <<>>]
      [] route = "/hostname" -> [type |-> "hostnameRequest"]

\* The body is malformed for the route: the JSON decoder rejects it.
Malformed(route, body) == jsonDecode(ZeroRequest(route), body).err # NilError

\* The string a body gives for s; a body with no string under "s" leaves the
\* request's field at the empty string.
InputS(body) ==
    IF body.kind = "object" /\ body.s.t = "string" THEN body.s.val ELSE <<>>

\* v is s with every character uppercased.
IsUppercased(v, s) ==
    /\ Len(v) = Len(s)
    /\ \A i \in 1 .. Len(s) :
          v[i] = (CASE s[i] = "a" -> "A" [] s[i] = "e'" -> "E'" [] OTHER -> s[i])

\* The number of characters of s, and the number of bytes of its UTF-8 form.
CharLength(s) == Len(s)
ByteLength(s) == Len(s) + Cardinality({i \in 1 .. Len(s) : s[i] \in {"e'", "E'"}})

\* The call in slot c has ended with a body / at all.
Done(c) == calls[c].pc = "done"
Ended(c) == calls[c].pc \in {"done", "failed"}

\* The body of a finished call carries an err field.
HasErr(c) == "err" \in DOMAIN calls[c].out.json

(***************************************************************************)
(* C1                                                                      *)
(***************************************************************************)
\* The capability method behind the probed endpoint fails on the probed input.
ProbeDomainFailure ==
    \/ probe.route = "/uppercase" /\ probe.request.S = <<>>
    \/ probe.route = "/hostname" /\ probe.seen.err # NilError

\* C1: an endpoint given a request of its own envelope type returns a response
\* with a nil transport-level error, whether the capability succeeded or
\* returned a domain error; the domain error shows only as the message text
\* in the response's Err field (and a count response has no such field).
C1_NilTransportError ==
    (probe.pc = "returned" /\ probe.request.type = OwnRequestType(probe.route)) =>
        /\ probe.result.kind = "return"
        /\ probe.result.err = NilError
        /\ probe.result.response # Nil
        /\ IF probe.route = "/count"
           THEN "Err" \notin DOMAIN probe.result.response
           ELSE probe.result.response.Err =
                    (IF ProbeDomainFailure THEN EmptyStringText ELSE <<>>)

\* The uppercase endpoint has returned on the domain failure of its capability.
C1_Witness ==
    /\ probe.pc = "returned"
    /\ probe.route = "/uppercase"
    /\ probe.request = uppercaseRequest(<<>>)
    /\ probe.result.kind = "return"
    /\ probe.result.response.Err = EmptyStringText

(***************************************************************************)
(* C10                                                                     *)
(***************************************************************************)
\* Under the wiring of main the endpoint of a route only ever gets the
\* envelope type of that route.
WiringPairsTypes ==
    \A c \in CallIds :
        calls[c].pc \in {"executing", "encoding", "done"} =>
            calls[c].request.type = OwnRequestType(calls[c].route)

\* C10: every endpoint narrows the request to its own envelope type first, so
\* that a request of another envelope type ends in a fault and not in a
\* response envelope; and under the wiring of main no endpoint is handed a
\* request of another envelope type.
C10_EveryEndpointNarrows ==
    /\ (probe.pc = "returned" /\ probe.request.type # OwnRequestType(probe.route)) =>
          probe.result.kind = "panic"
    /\ WiringPairsTypes

(***************************************************************************)
(* C2                                                                      *)
(***************************************************************************)
\* C2: on every route, a call whose body the decode step rejects ends with an
\* infrastructure-level failure: no capability method was invoked for it, and
\* no request or response envelope exists and none was encoded.
C2_DecodeFailureIsInfrastructure ==
    \A c \in CallIds :
        (calls[c].pc \notin {"idle", "decoding"}
            /\ Malformed(calls[c].route, calls[c].body)) =>
            /\ calls[c].pc = "failed"
            /\ ~calls[c].invoked
            /\ calls[c].request = Nil
            /\ calls[c].response = Nil
            /\ calls[c].out.kind = "failure"

\* A call on /count whose JSON object holds a number under "s" has failed.
C2_Witness ==
    \E c \in CallIds :
        /\ calls[c].pc = "failed"
        /\ calls[c].route = "/count"
        /\ calls[c].body = [kind |-> "object", s |-> JNumber(7)]
        /\ calls[c].out.kind = "failure"

(***************************************************************************)
(* C3                                                                      *)
(***************************************************************************)
\* C3: for every non-empty string s, the body the uppercase route answers with
\* has v equal to s with every character uppercased, and no err field.
C3_UppercaseNonEmpty ==
    \A c \in CallIds :
        (Ended(c) /\ calls[c].route = "/uppercase"
            /\ ~Malformed(calls[c].route, calls[c].body)
            /\ InputS(calls[c].body) # <<>>) =>
            /\ Done(c)
            /\ DOMAIN calls[c].out.json = {"v"}
            /\ calls[c].out.json.v.t = "string"
            /\ IsUppercased(calls[c].out.json.v.val, InputS(calls[c].body))

\* The uppercase route has answered a two-character string, one character of
\* it outside ASCII.
C3_Witness ==
    \E c \in CallIds :
        /\ Done(c)
        /\ calls[c].route = "/uppercase"
        /\ InputS(calls[c].body) = <<"a", "e'">>
        /\ calls[c].out = Body([v |-> JString(<<"A", "E'">>)])

(***************************************************************************)
(* C4                                                                      *)
(***************************************************************************)
\* C4: the uppercase route called with the empty string answers v = "" and
\* err = "empty string", and for no other string does its answer carry an err
\* field.
C4_UppercaseEmpty ==
    \A c \in CallIds :
        (Ended(c) /\ calls[c].route = "/uppercase"
            /\ ~Malformed(calls[c].route, calls[c].body)) =>
            /\ Done(c)
            /\ InputS(calls[c].body) = <<>> =>
                  calls[c].out =
                      Body([v |-> JString(<<>>), err |-> JString(EmptyStringText)])
            /\ HasErr(c) <=> InputS(calls[c].body) = <<>>

\* The uppercase route has answered the body {"s": ""}.
C4_Witness ==
    \E c \in CallIds :
        /\ Done(c)
        /\ calls[c].route = "/uppercase"
        /\ calls[c].body = [kind |-> "object", s |-> JString(<<>>)]
        /\ HasErr(c)

(***************************************************************************)
(* C5                                                                      *)
(***************************************************************************)
\* C5 as stated: for every string s the body the count route answers with has
\* v equal to the length of s, a number that is at once the count of its
\* characters and the count of its bytes, and never an err field.
C5_CountIsCharacterAndByteLength ==
    \A c \in CallIds :
        (Ended(c) /\ calls[c].route = "/count"
            /\ ~Malformed(calls[c].route, calls[c].body)) =>
            /\ Done(c)
            /\ DOMAIN calls[c].out.json = {"v"}
            /\ calls[c].out.json.v = JNumber(CharLength(InputS(calls[c].body)))
            /\ calls[c].out.json.v = JNumber(ByteLength(InputS(calls[c].body)))

\* C5 amended: for every string s, the empty one included, the body the count
\* route answers with has v equal to the number of bytes of s in UTF-8 (the
\* number of its characters when s is ASCII only), and never an err field.
C5_CountIsByteLength ==
    \A c \in CallIds :
        (Ended(c) /\ calls[c].route = "/count"
            /\ ~Malformed(calls[c].route, calls[c].body)) =>
            /\ Done(c)
            /\ DOMAIN calls[c].out.json = {"v"}
            /\ calls[c].out.json.v = JNumber(ByteLength(InputS(calls[c].body)))

\* The count route has answered 3 for a string of two characters.
C5_Witness ==
    \E c \in CallIds :
        /\ Done(c)
        /\ calls[c].route = "/count"
        /\ InputS(calls[c].body) = <<"a", "e'">>
        /\ calls[c].out = Body([v |-> JNumber(3)])

(***************************************************************************)
(* C6                                                                      *)
(***************************************************************************)
\* C6: the hostname route answers v = the host name the environment reported
\* and no err field when the lookup succeeded, and v = "" with
\* err = "empty string" when it failed; err is there exactly when the lookup
\* failed.
C6_Hostname ==
    \A c \in CallIds :
        (Ended(c) /\ calls[c].route = "/hostname"
            /\ ~Malformed(calls[c].route, calls[c].body)) =>
            /\ Done(c)
            /\ calls[c].seen \in OSResults
            /\ calls[c].seen.err = NilError =>
                  calls[c].out = Body([v |-> JString(calls[c].seen.name)])
            /\ calls[c].seen.err # NilError =>
                  calls[c].out =
                      Body([v |-> JString(<<>>), err |-> JString(EmptyStringText)])
            /\ HasErr(c) <=> calls[c].seen.err # NilError

\* The hostname route has answered while the lookup failed.
C6_Witness ==
    \E c \in CallIds :
        /\ Done(c)
        /\ calls[c].route = "/hostname"
        /\ calls[c].seen.err # NilError
        /\ HasErr(c)

(***************************************************************************)
(* C7                                                                      *)
(***************************************************************************)
\* The moves of a call: decoding, executing, encoding in that order, ending
\* with a body, or with a failure straight from decoding.
PipelineSteps ==
    {<<"idle", "decoding">>, <<"decoding", "executing">>, <<"decoding", "failed">>,
     <<"executing", "encoding">>, <<"encoding", "done">>,
     <<"done", "idle">>, <<"failed", "idle">>}

\* A well-formed response body: a JSON object with v, a string or on /count a
\* number, and at most one more field, err, a string.
WellFormedBody(c) ==
    /\ calls[c].out.kind = "body"
    /\ "v" \in DOMAIN calls[c].out.json
    /\ DOMAIN calls[c].out.json \subseteq {"v", "err"}
    /\ calls[c].out.json.v.t = (IF calls[c].route = "/count" THEN "number" ELSE "string")
    /\ HasErr(c) => calls[c].out.json.err.t = "string"

\* C7: a call moves through decoding, executing and encoding in that order;
\* once its decode step has succeeded it ends, in time, with a well-formed
\* response body, a domain error or none; and a call ends with a
\* transport-level failure and no body only if its decode step failed.
C7_Pipeline ==
    /\ [][\A c \in CallIds :
              calls[c].pc # calls'[c].pc => <<calls[c].pc, calls'[c].pc>> \in PipelineSteps]_vars
    /\ \A c \in CallIds :
          (calls[c].pc = "executing") ~> (Done(c) /\ WellFormedBody(c))
    /\ [](\A c \in CallIds :
              calls[c].pc = "failed" =>
                  /\ Malformed(calls[c].route, calls[c].body)
                  /\ calls[c].out.kind # "body")

\* A call has ended with a body that reports a domain error while another
\* call is still executing.
C7_Witness ==
    \E c, d \in CallIds :
        /\ Done(c) /\ WellFormedBody(c) /\ HasErr(c)
        /\ calls[d].pc = "executing"

(***************************************************************************)
(* C8                                                                      *)
(***************************************************************************)
\* C8 as stated: two calls of the same route with the same input end with the
\* same output, whatever ran in between.
C8_SameInputSameOutput ==
    \A c, d \in CallIds :
        (Ended(c) /\ Ended(d)
            /\ calls[c].route = calls[d].route
            /\ calls[c].body = calls[d].body) =>
            calls[c].out = calls[d].out

\* C8 amended: two calls of the same route with the same input end with the
\* same output, whatever ran in between, on /uppercase and /count always and
\* on /hostname when the environment's host lookup gave both the same result;
\* and no step of a call changes what the lookup gives.
C8_SameInputAndLookupSameOutput ==
    /\ [](\A c, d \in CallIds :
              (Ended(c) /\ Ended(d)
                  /\ calls[c].route = calls[d].route
                  /\ calls[c].body = calls[d].body
                  /\ calls[c].seen = calls[d].seen) =>
                  calls[c].out = calls[d].out)
    /\ [][calls' # calls => osHostname' = osHostname]_vars

\* Two calls of /hostname with the same body that saw the same host name
\* have ended with the same body.
C8_Witness ==
    /\ Done(1) /\ Done(2)
    /\ calls[1].route = "/hostname" /\ calls[2].route = "/hostname"
    /\ calls[1].body = calls[2].body
    /\ calls[1].seen = calls[2].seen
    /\ calls[1].seen.err = NilError
    /\ calls[1].out = calls[2].out

(***************************************************************************)
(* C9                                                                      *)
(***************************************************************************)
\* The request envelope a call of route with body is decoded to.
AloneRequest(route, body) ==
    IF route = "/hostname" THEN ZeroRequest(route)
    ELSE [ZeroRequest(route) EXCEPT !.S = InputS(body)]

\* What a call of route with body ends with when it runs alone and the host
\* lookup gives seen.
AloneOut(route, body, seen) ==
    IF Malformed(route, body)
    THEN TransportFailure(jsonDecode(ZeroRequest(route), body).err)
    ELSE CASE route = "/uppercase" ->
                IF InputS(body) = <<>>
                THEN Body([v |-> JString(<<>>), err |-> JString(EmptyStringText)])
                ELSE Body([v |-> JString([i \in 1 .. Len(InputS(body)) |->
                              CASE InputS(body)[i] = "a" -> "A"
                                [] InputS(body)[i] = "e'" -> "E'"
                                [] OTHER -> InputS(body)[i]])])
           [] route = "/count" -> Body([v |-> JNumber(ByteLength(InputS(body)))])
           [] route = "/hostname" ->
                IF seen.err = NilError THEN Body([v |-> JString(seen.name)])
                ELSE Body([v |-> JString(<<>>), err |-> JString(EmptyStringText)])

\* C9: with several calls in flight on the same or different routes, however
\* their steps interleave, every call holds the request envelope of its own
\* input and ends with the output it would end with if it ran alone, and each
\* step touches the envelopes of one call only.
C9_CallsAreIsolated ==
    /\ [](\A c \in CallIds :
              /\ calls[c].pc \in {"executing", "encoding", "done"} =>
                    calls[c].request = AloneRequest(calls[c].route, calls[c].body)
              /\ Ended(c) =>
                    calls[c].out = AloneOut(calls[c].route, calls[c].body, calls[c].seen))
    /\ [][\A c, d \in CallIds :
              c # d => (calls'[c] = calls[c] \/ calls'[d] = calls[d])]_vars

\* Two calls of /uppercase with different strings are in flight together, one
\* ended and the other about to be encoded.
C9_Witness ==
    \E c, d \in CallIds :
        /\ Done(c) /\ calls[c].route = "/uppercase"
        /\ calls[c].out = Body([v |-> JString(<<"A">>)])
        /\ calls[d].pc = "encoding" /\ calls[d].route = "/uppercase"
        /\ calls[d].response = uppercaseResponse(<<"A", "E'">>, <<>>)

====
